---- MODULE Spec2Model ----
\* Model of forge's Executor (forge/src/executor/mod.rs): a call protocol
\* around an interpreter (revm's EVM) and a layered store (CacheDB over a
\* backing DatabaseRef).  Committing operations hand the store to the
\* interpreter by exclusive reference, speculative ones by shared reference.
EXTENDS Integers, Sequences, FiniteSets, TLC

\* ---------------------------------------------------------------- bounds
MaxAddr == 1        \* addresses are 0..MaxAddr
MaxBal == 1         \* balances are 0..MaxBal
MaxNonce == 2       \* a caller whose nonce reached MaxNonce sends no more

Address == 0..MaxAddr
ZeroAddress == 0    \* Address::zero()

\* ---------------------------------------------------------------- data
\* Account state: balance, nonce, code (0 = no code, 1 = a DSTest-style test
\* contract) and storage (the value of the contract's `failed` slot).
DefaultAccount == [balance |-> 0, nonce |-> 0, code |-> 0, storage |-> 0]

\* Return::{Continue, Stop, Return, SelfDestruct}, revm's return_ok!() set.
return_ok == {"Continue", "Stop", "Return", "SelfDestruct"}

\* Option<HashMap<Address, Account>>
NoChangeset == [some |-> FALSE, map |-> <<>>]
SomeChangeset(m) == [some |-> TRUE, map |-> m]

\* Call environments: the block gas limit either admits the transaction's
\* default gas limit ("open") or is below it ("tight").
Envs == {"open", "tight"}

\* EmptyDB: every account is the default one.
EmptyDB == [a \in Address |-> DefaultAccount]

\* The backing provider the Executor is built over: it holds a funded account
\* (1) and, when the address space reaches that far, a test contract (2);
\* every other address is unknown to it.
ForkDB ==
    [a \in Address |->
        IF a = 1 THEN [balance |-> 1, nonce |-> 0, code |-> 0, storage |-> 0]
        ELSE IF a = 2 THEN [balance |-> 0, nonce |-> 1, code |-> 1, storage |-> 0]
        ELSE DefaultAccount]

VARIABLES
    db,      \* CacheDB overlay of the Executor: a map from a set of addresses
    inner,   \* the backing provider (DB: DatabaseRef) under the overlay
    env,     \* Executor.env
    inspector,  \* what becomes of the inspector handed to the interpreter
    last     \* the last operation: its inputs, its result, what it observed

vars == <<db, inner, env, inspector, last>>

\* ------------------------------------------------- layered store (CacheDB)
\* read(address): the overlay entry if present, else the backing provider's.
basic(d, i, a) == IF a \in DOMAIN d THEN d[a] ELSE i[a]

\* The addresses among S whose read has to consult the backing provider.
Missed(d, S) == S \ DOMAIN d

\* insert(address, account): writes into the overlay.
insert_cache(d, a, account) ==
    [x \in DOMAIN d \cup {a} |-> IF x = a THEN account ELSE d[x]]

\* apply(changeset): merges every entry of the changeset into the overlay.
commit(d, changes) ==
    [x \in DOMAIN d \cup DOMAIN changes |->
        IF x \in DOMAIN changes THEN changes[x] ELSE d[x]]

\* Reads made through an exclusive reference (Database::basic on &mut CacheDB)
\* cache what they fetched from the provider.
load(d, i, S) == [x \in DOMAIN d \cup S |-> basic(d, i, x)]

\* The store as the interpreter sees it, through either kind of reference.
View(d, i) == [a \in Address |-> basic(d, i, a)]

\* --------------------------------------------------- interpreter (revm EVM)
\* TxEnv { caller, transact_to, data, value, ..Default::default() }
CallTx(from, to, calldata, value) ==
    [caller |-> from, transact_to |-> "Call", to |-> to, data |-> calldata,
     value |-> value]
CreateTx(from, code, value) ==
    [caller |-> from, transact_to |-> "Create", to |-> from, data |-> code,
     value |-> value]

\* TransactOut::{None, Call(bytes), Create(bytes, Option<Address>)}
OutNone == [kind |-> "None", data |-> "", addr |-> {}]
OutCall(data) == [kind |-> "Call", data |-> data, addr |-> {}]
OutCreate(data, addr) == [kind |-> "Create", data |-> data, addr |-> addr]

Outcome(status, out, gas, state, logs, reads) ==
    [status |-> status, out |-> out, gas |-> gas, state |-> state,
     logs |-> logs, reads |-> reads]

\* The accounts of working state w that the execution touched.
Diff(w, touched) == [a \in touched |-> w[a]]

\* The address a creation by `caller` at nonce `n` lands on (never zero).
CreateAddress(caller, n) == ((caller + n) % MaxAddr) + 1

\* A message call.  The caller's nonce is bumped whatever the outcome; the
\* value moves only when the call does not revert.
TransactCall(view, tx) ==
    LET from == tx.caller
        to == tx.to
        w1 == [view EXCEPT ![from].nonce = @ + 1]
        w2 == [w1 EXCEPT ![from].balance = @ - tx.value]
        w3 == [w2 EXCEPT ![to].balance = @ + tx.value]
        both == {from, to}
        reverted(data, gas, logs) ==
            Outcome("Revert", OutCall(data), gas, Diff(w1, {from}), logs, both)
    IN  IF view[from].balance < tx.value
        THEN Outcome("OutOfFund", OutCall(""), 21, Diff(w1, {from}), <<>>, both)
        ELSE IF w3[to].code = 0
        THEN Outcome("Stop", OutCall(""), 21, Diff(w3, both), <<>>, both)
        ELSE CASE tx.data = "setUp()" ->
                    Outcome("Stop", OutCall(""), 30, Diff(w3, both), <<"setUp">>, both)
               [] tx.data = "fail()" ->
                    Outcome("Stop", OutCall(""), 40,
                            Diff([w3 EXCEPT ![to].storage = 1], both),
                            <<"log", "fail">>, both)
               [] tx.data = "failed()" ->
                    Outcome("Return",
                            OutCall(IF w3[to].storage = 1 THEN "0x1" ELSE "0x0"),
                            25, Diff(w3, both), <<>>, both)
               [] tx.data = "revert()" -> reverted("Error(boom)", 35, <<"log">>)
               [] tx.data = "bail()" -> reverted("0xdead", 36, <<>>)
               [] OTHER -> reverted("", 22, <<>>)

\* A contract creation.  "good" init code installs the test contract; "revert"
\* init code reverts; "empty" init code stops without yielding an address.
TransactCreate(view, tx) ==
    LET from == tx.caller
        new == CreateAddress(from, view[from].nonce)
        w1 == [view EXCEPT ![from].nonce = @ + 1]
        w2 == [w1 EXCEPT ![from].balance = @ - tx.value]
        w3 == [w2 EXCEPT ![new] = [balance |-> @.balance + tx.value, nonce |-> 1,
                                   code |-> 1, storage |-> 0]]
        both == {from, new}
        failed(status, gas) ==
            Outcome(status, OutCreate("", {}), gas, Diff(w1, {from}), <<>>, both)
    IN  IF view[from].balance < tx.value THEN failed("OutOfFund", 21)
        ELSE IF w1[new].code # 0 \/ w1[new].nonce # 0 THEN failed("CreateCollision", 21)
        ELSE CASE tx.data = "good" ->
                    Outcome("Return", OutCreate("code", {new}), 50, Diff(w3, both),
                            <<"ctor">>, both)
               [] tx.data = "revert" -> failed("Revert", 45)
               [] OTHER -> failed("Stop", 23)

\* EVM::transact: a transaction whose gas limit exceeds the block's is turned
\* away before any account is loaded.
transact(view, e, tx) ==
    IF e = "tight" THEN Outcome("OutOfGas", OutNone, 0, <<>>, <<>>, {})
    ELSE IF tx.transact_to = "Call" THEN TransactCall(view, tx)
    ELSE TransactCreate(view, tx)

\* ------------------------------------------------------------ ABI layer
\* Function signatures handed to the typed calls (F: IntoFunction).
Funcs == {"setUp()", "failed()(bool)", "fail()", "revert()", "bail()"}

\* The call data prefix a signature resolves to.
Selector(func) == IF func = "failed()(bool)" THEN "failed()" ELSE func

\* encode_function_data: every signature here takes no argument, so encoding
\* fails as soon as a token is supplied.
EncodeOk(func, args) == args = 0

\* decode_function_data: a bool output needs a 32-byte word, a signature
\* without outputs decodes from any data.
DecodeOk(func, data) == func = "failed()(bool)" => data \in {"0x0", "0x1"}
Decode(func, data) ==
    IF func = "failed()(bool)" THEN (IF data = "0x1" THEN "true" ELSE "false")
    ELSE "()"

\* foundry_utils::decode_revert(..).unwrap_or_else(|_| format!("{:?}", status)):
\* Error(string) data always decodes, a custom error only against an ABI.
RevertReason(data, abi, status) ==
    IF data = "Error(boom)" THEN "boom"
    ELSE IF data = "0xdead" /\ abi THEN "Dead"
    ELSE status

\* ------------------------------------------------------------- results
Result(kind, status, result, reason, gas, logs, changeset, addr) ==
    [kind |-> kind, status |-> status, result |-> result, reason |-> reason,
     gas |-> gas, logs |-> logs, state_changeset |-> changeset, addr |-> addr]

AbiError == Result("AbiError", "", "", "", 0, <<>>, NoChangeset, {})

\* The operation aborted: nothing is returned, the Executor is gone.
Panic(message) == Result("panic", "", "", message, 0, <<>>, NoChangeset, {})

\* What one operation did: its result, the overlay it leaves, the addresses
\* it fetched from the backing provider, and the outcome of every interpreter
\* invocation it made, in order.
Done(res, d, queried, runs) ==
    [res |-> res, db |-> d, queried |-> queried, runs |-> runs]

\* ------------------------------------------- log collector (LogCollector)
\* The interpreter is handed the inspector by value.  It either drops it
\* before it returns, or the inspector is still alive when the Executor
\* reclaims the collector state.
Inspectors == {"dropped", "kept"}

\* The collector state as it would be if the Executor kept one collector and
\* handed it to every invocation.
ExecutorState_reused == last.res.logs

\* ExecutorState::new(): the collector state an invocation starts with.
ExecutorState_new == <<>>

\* state.logs once the inspector has seen the invocation: the events emitted,
\* appended in emission order to what the state held.
Collected(o) == ExecutorState_new \o o.logs

\* Rc::strong_count of the collector state when the interpreter has returned:
\* the Executor's handle, and the inspector's while it is alive.
strong_count == IF inspector = "dropped" THEN 1 ELSE 2

\* The reclaim as it would be if the state were read through the shared handle.
Reclaimed_shared(done) == done

\* Rc::try_unwrap(state).expect("no inspector should be alive"): `done` is
\* what the operation returns when the state is reclaimed.
Reclaimed(done) ==
    IF strong_count = 1 THEN done
    ELSE Done(Panic("no inspector should be alive"), done.db, done.queried, done.runs)

\* ------------------------------------------------------------- Executor
\* Each operation is split in two: the interpreter invocation it makes, and
\* what it builds from the invocation's outcome.

\* The store after reads that cached what they fetched, the diff dropped.
Cached(d, i, o) ==
    [o |-> o, db |-> load(d, i, o.reads), queried |-> Missed(d, o.reads)]

\* inspect_commit as it would be if the diff were dropped instead of committed.
inspect_commit_dropping(d, i, e, tx) == Cached(d, i, transact(View(d, i), e, tx))

\* The interpreter read through the exclusive reference and its diff o.state
\* was committed to the store.
Committed(d, i, o) ==
    [o |-> o, db |-> commit(load(d, i, o.reads), o.state),
     queried |-> Missed(d, o.reads)]

\* evm.database(&mut self.db); evm.inspect_commit(..)
inspect_commit(d, i, e, tx) == Committed(d, i, transact(View(d, i), e, tx))

\* inspect_ref as it would be if reads through the shared reference cached
\* what they fetched.
inspect_ref_caching(d, i, e, tx) == Cached(d, i, transact(View(d, i), e, tx))

\* inspect_ref as it would be if the speculative path committed its diff.
inspect_ref_committing(d, i, e, tx) == inspect_commit(d, i, e, tx)

\* The interpreter read through the shared reference: the store is as it was
\* and the diff is handed back in o.state.
Referenced(d, i, o) == [o |-> o, db |-> d, queried |-> Missed(d, o.reads)]

\* evm.database(&self.db); evm.inspect_ref(..)
inspect_ref(d, i, e, tx) == Referenced(d, i, transact(View(d, i), e, tx))

\* match out { TransactOut::Call(data) => data, _ => Bytes::default() }
CallData(out) == IF out.kind = "Call" THEN out.data ELSE ""

\* Ok(RawCallResult { status, result, gas, logs: state.logs, state_changeset })
RawCallResult(r, changeset) ==
    Reclaimed(Done(Result("Ok", r.o.status, CallData(r.o.out), "", r.o.gas,
                          Collected(r.o), changeset, {}),
                   r.db, r.queried, <<r.o>>))

RawCommitted(r) == RawCallResult(r, NoChangeset)
RawSpeculative(r) == RawCallResult(r, SomeChangeset(r.o.state))

call_raw_committing(d, i, e, from, to, calldata, value) ==
    RawCommitted(inspect_commit(d, i, e, CallTx(from, to, calldata, value)))

\* call_raw as it would be if the transaction were built without the value.
call_raw_no_value(d, i, e, from, to, calldata, value) ==
    RawSpeculative(inspect_ref(d, i, e, CallTx(from, to, calldata, 0)))

call_raw(d, i, e, from, to, calldata, value) ==
    RawSpeculative(inspect_ref(d, i, e, CallTx(from, to, calldata, value)))

\* Typed as it would be if only Return::Return counted as success.
Typed_return_only(r, func, abi, changeset) ==
    IF r.status = "Return"
    THEN IF DecodeOk(func, r.result)
         THEN Result("Ok", r.status, Decode(func, r.result), "", r.gas, r.logs,
                     changeset, {})
         ELSE AbiError
    ELSE Result("Execution", r.status, "", RevertReason(r.result, abi, r.status),
                r.gas, r.logs, changeset, {})

\* The match on the status shared by call_committing and call: r is the raw
\* result, `changeset` what the wrapper puts in the state_changeset field.
Typed(r, func, abi, changeset) ==
    IF r.status \in return_ok
    THEN IF DecodeOk(func, r.result)
         THEN Result("Ok", r.status, Decode(func, r.result), "", r.gas, r.logs,
                     changeset, {})
         ELSE AbiError
    ELSE Result("Execution", r.status, "", RevertReason(r.result, abi, r.status),
                r.gas, r.logs, changeset, {})

\* self.call_raw_committing(..)? and the match; an abort of the raw call
\* unwinds through the wrapper.
TypedCommitted(raw, func, abi) ==
    IF raw.res.kind = "panic" THEN raw
    ELSE Done(Typed(raw.res, func, abi, NoChangeset), raw.db, raw.queried, raw.runs)

TypedSpeculative(raw, func, abi) ==
    IF raw.res.kind = "panic" THEN raw
    ELSE Done(Typed(raw.res, func, abi, raw.res.state_changeset), raw.db,
              raw.queried, raw.runs)

\* The wrapper's result as it would be if the encoding error were raised only
\* once the raw call is back.
EncodingErrorAfter(raw) ==
    IF raw.res.kind = "panic" THEN raw
    ELSE Done(AbiError, raw.db, raw.queried, raw.runs)

\* call_committing as it would be if the raw call ran before the arguments
\* were encoded.
call_committing_encoding_late(d, i, e, from, to, func, args, value, abi) ==
    IF ~EncodeOk(func, args)
    THEN EncodingErrorAfter(call_raw_committing(d, i, e, from, to, Selector(func),
                                                value))
    ELSE TypedCommitted(call_raw_committing(d, i, e, from, to, Selector(func), value),
                        func, abi)

call_committing(d, i, e, from, to, func, args, value, abi) ==
    IF ~EncodeOk(func, args) THEN Done(AbiError, d, {}, <<>>)
    ELSE TypedCommitted(call_raw_committing(d, i, e, from, to, Selector(func), value),
                        func, abi)

\* call as it would be if it dropped the changeset like call_committing does.
call_dropping_changeset(d, i, e, from, to, func, args, value, abi) ==
    IF ~EncodeOk(func, args) THEN Done(AbiError, d, {}, <<>>)
    ELSE TypedCommitted(call_raw(d, i, e, from, to, Selector(func), value), func, abi)

call(d, i, e, from, to, func, args, value, abi) ==
    IF ~EncodeOk(func, args) THEN Done(AbiError, d, {}, <<>>)
    ELSE TypedSpeculative(call_raw(d, i, e, from, to, Selector(func), value),
                          func, abi)

\* set_balance as it would be if it kept an entry the overlay already holds.
set_balance_keeping(d, i, address, amount) ==
    Done(Result("Ok", "", "", "", 0, <<>>, NoChangeset, {}),
         IF address \in DOMAIN d THEN d
         ELSE insert_cache(d, address, [basic(d, i, address) EXCEPT !.balance = amount]),
         Missed(d, {address}), <<>>)

\* set_balance as it would be if it wrote a new account instead of the one read.
set_balance_resetting(d, i, address, amount) ==
    Done(Result("Ok", "", "", "", 0, <<>>, NoChangeset, {}),
         insert_cache(d, address, [DefaultAccount EXCEPT !.balance = amount]),
         Missed(d, {address}), <<>>)

set_balance(d, i, address, amount) ==
    Done(Result("Ok", "", "", "", 0, <<>>, NoChangeset, {}),
         insert_cache(d, address, [basic(d, i, address) EXCEPT !.balance = amount]),
         Missed(d, {address}), <<>>)

\* let CallResult { status, logs, .. } = ..?; Ok((status, logs))
StatusAndLogs(c) ==
    IF c.res.kind = "Ok"
    THEN Done(Result("Ok", c.res.status, "", "", 0, c.res.logs, NoChangeset, {}),
              c.db, c.queried, c.runs)
    ELSE c

\* setup as it would be if it went through the speculative call.
setup_speculative(d, i, e, address) ==
    StatusAndLogs(call(d, i, e, ZeroAddress, address, "setUp()", 0, 0, FALSE))

setup(d, i, e, address) ==
    StatusAndLogs(call_committing(d, i, e, ZeroAddress, address, "setUp()", 0, 0, FALSE))

\* The match on the creation output as it would be if a missing address were
\* replaced by the zero one.
Deployed_defaulting(r) ==
    IF r.o.out.kind = "Create"
    THEN Reclaimed(Done(Result("Ok", r.o.status, "", "", r.o.gas, Collected(r.o),
                               NoChangeset,
                               IF r.o.out.addr # {} THEN r.o.out.addr
                               ELSE {ZeroAddress}),
                        r.db, r.queried, <<r.o>>))
    ELSE Done(Panic("unreachable"), r.db, r.queried, <<r.o>>)

\* deploy as it would be if a missing address were replaced by the zero one.
deploy_defaulting(d, i, e, from, code, value) ==
    Deployed_defaulting(inspect_commit(d, i, e, CreateTx(from, code, value)))

\* The match on the creation output: an address, "deployment failed", or
\* unreachable!().
Deployed(r) ==
    IF r.o.out.kind = "Create" /\ r.o.out.addr # {}
    THEN Reclaimed(Done(Result("Ok", r.o.status, "", "", r.o.gas, Collected(r.o),
                               NoChangeset, r.o.out.addr),
                        r.db, r.queried, <<r.o>>))
    ELSE IF r.o.out.kind = "Create"
    THEN Done(Result("Eyre", "", "", "deployment failed", 0, <<>>, NoChangeset, {}),
              r.db, r.queried, <<r.o>>)
    ELSE Done(Panic("unreachable"), r.db, r.queried, <<r.o>>)

\* What a committing operation would leave if an error undid the commit.
RolledBack(d, done) ==
    IF done.res.kind = "Ok" THEN done
    ELSE Done(done.res, d, done.queried, done.runs)

\* deploy as it would be if a failed deployment left the store as it was.
deploy_rolling_back(d, i, e, from, code, value) ==
    RolledBack(d, Deployed(inspect_commit(d, i, e, CreateTx(from, code, value))))

deploy(d, i, e, from, code, value) ==
    Deployed(inspect_commit(d, i, e, CreateTx(from, code, value)))

\* The store of the throwaway Executor of is_success:
\* CacheDB::new(EmptyDB()), insert_cache(address, self.db.basic(address)),
\* commit(state_changeset).
ProbeDB(d, i, address, state_changeset) ==
    commit(insert_cache(<<>>, address, basic(d, i, address)), state_changeset)

\* executor.call::<bool, _, _>(Address::zero(), address, "failed()(bool)", ..)
Probe(probedb, e, address) ==
    call(probedb, EmptyDB, e, ZeroAddress, address, "failed()(bool)", 0, 0, FALSE)

\* The verdict as it would be if a probe that returned an error counted as a
\* failed test.
Verdict_strict(success, should_fail, probe) ==
    IF should_fail # (success /\ probe.res.kind = "Ok" /\ probe.res.result # "true")
    THEN "true" ELSE "false"

\* success = !failed when the probe returned Ok; should_fail ^ success.
Verdict(success, should_fail, probe) ==
    IF should_fail # (IF success /\ probe.res.kind = "Ok"
                      THEN probe.res.result # "true" ELSE success)
    THEN "true" ELSE "false"

\* The verdict as it would be if the probe were consulted whatever the status.
Judged_always_probing(d, queried, success, should_fail, probe) ==
    IF probe.res.kind = "panic" THEN Done(probe.res, d, queried, probe.runs)
    ELSE Done(Result("Ok", "",
                     Verdict(probe.res.kind = "Ok" \/ success, should_fail, probe),
                     "", 0, <<>>, NoChangeset, {}),
              d, queried, probe.runs)

\* The probe runs only `if success`; an abort of the probe call unwinds
\* through is_success.
Judged(d, queried, success, should_fail, probe) ==
    IF success /\ probe.res.kind = "panic" THEN Done(probe.res, d, queried, probe.runs)
    ELSE Done(Result("Ok", "", Verdict(success, should_fail, probe), "", 0, <<>>,
                     NoChangeset, {}),
              d, queried, IF success THEN probe.runs ELSE <<>>)

\* is_success as it would be if it seeded the probe store from the backing
\* provider instead of the layered store.
is_success_bypassing(d, i, e, address, status, state_changeset, should_fail) ==
    Judged(d, {address}, status \in return_ok, should_fail,
           Probe(commit(insert_cache(<<>>, address, i[address]), state_changeset),
                 e, address))

\* is_success as it would be if it probed whatever the status.
is_success_always_probing(d, i, e, address, status, state_changeset, should_fail) ==
    Judged_always_probing(d, Missed(d, {address}), status \in return_ok, should_fail,
                          Probe(ProbeDB(d, i, address, state_changeset), e, address))

\* is_success as it would be if it applied the changeset to its own store.
is_success_committing(d, i, e, address, status, state_changeset, should_fail) ==
    Judged(commit(d, state_changeset), Missed(d, {address}), status \in return_ok,
           should_fail, Probe(ProbeDB(d, i, address, state_changeset), e, address))

\* is_success as it would be if the throwaway store started from the whole
\* overlay instead of an empty one.
is_success_over_overlay(d, i, e, address, status, state_changeset, should_fail) ==
    Judged(d, Missed(d, {address}), status \in return_ok, should_fail,
           Probe(commit(insert_cache(d, address, basic(d, i, address)),
                        state_changeset),
                 e, address))

is_success(d, i, e, address, status, state_changeset, should_fail) ==
    Judged(d, Missed(d, {address}), status \in return_ok, should_fail,
           Probe(ProbeDB(d, i, address, state_changeset), e, address))

\* ------------------------------------------------------------- actions
Values == 0..MaxBal
Senders == {ZeroAddress, 1}
RawData == {"fail()", "revert()"}
InitCodes == {"good", "revert", "empty"}
Statuses == {"Stop", "Revert"}

\* The typed calls issued: <<signature, number of argument tokens, ABI given>>.
Shapes ==
    {<<"failed()(bool)", 0, FALSE>>, <<"fail()", 0, FALSE>>,
     <<"revert()", 0, FALSE>>, <<"bail()", 0, FALSE>>, <<"bail()", 0, TRUE>>,
     <<"fail()", 1, FALSE>>}

\* A test contract whose failed flag is f, as a changeset entry.
TestAccount(f) == [balance |-> 0, nonce |-> 1, code |-> 1, storage |-> f]

\* Changesets a caller may hand to is_success for `address`: none, the one the
\* last speculative call returned, or one that touches only `address`.
Changesets(address) ==
    {<<>>, address :> TestAccount(1)}
        \cup (IF last.res.state_changeset.some
              THEN {last.res.state_changeset.map} ELSE {})

Record(op, args, d) ==
    [op |-> op, args |-> args, res |-> d.res, pre |-> db,
     queried |-> d.queried, runs |-> d.runs]

Alive == last.res.kind # "panic"

\* The model's bounds on a transaction: the sender's nonce and the receiver's
\* balance stay within MaxNonce and MaxBal.
CanSend(from, to, value) ==
    /\ Alive
    /\ basic(db, inner, from).nonce < MaxNonce
    /\ basic(db, inner, to).balance + value <= MaxBal

Init ==
    /\ db = <<>>
    /\ inner = ForkDB
    /\ env \in Envs
    /\ inspector \in Inspectors
    /\ last = [op |-> "new", args |-> <<>>,
               res |-> Result("Ok", "", "", "", 0, <<>>, NoChangeset, {}),
               pre |-> <<>>, queried |-> {}, runs |-> <<>>]

\* One operation: the store becomes what the operation leaves and `last`
\* records it.
Step(op, args, done) ==
    \E d \in {done} :
        /\ db' = d.db
        /\ last' = Record(op, args, d)
        /\ UNCHANGED <<inner, env, inspector>>

SetBalance(address, amount) ==
    /\ Alive
    /\ Step("set_balance", [address |-> address, amount |-> amount],
            set_balance(db, inner, address, amount))

Setup(address) ==
    /\ CanSend(ZeroAddress, address, 0)
    /\ Step("setup", [address |-> address], setup(db, inner, env, address))

CallCommitting(from, to, func, args, value, abi) ==
    /\ CanSend(from, to, value)
    /\ Step("call_committing",
            [from |-> from, to |-> to, func |-> func, args |-> args,
             value |-> value, abi |-> abi],
            call_committing(db, inner, env, from, to, func, args, value, abi))

CallRawCommitting(from, to, calldata, value) ==
    /\ CanSend(from, to, value)
    /\ Step("call_raw_committing",
            [from |-> from, to |-> to, calldata |-> calldata, value |-> value],
            call_raw_committing(db, inner, env, from, to, calldata, value))

Call(from, to, func, args, value, abi) ==
    /\ CanSend(from, to, value)
    /\ Step("call",
            [from |-> from, to |-> to, func |-> func, args |-> args,
             value |-> value, abi |-> abi],
            call(db, inner, env, from, to, func, args, value, abi))

CallRaw(from, to, calldata, value) ==
    /\ CanSend(from, to, value)
    /\ Step("call_raw",
            [from |-> from, to |-> to, calldata |-> calldata, value |-> value],
            call_raw(db, inner, env, from, to, calldata, value))

Deploy(from, code, value) ==
    /\ CanSend(from, CreateAddress(from, basic(db, inner, from).nonce), value)
    /\ Step("deploy", [from |-> from, code |-> code, value |-> value],
            deploy(db, inner, env, from, code, value))

IsSuccess(address, status, state_changeset, should_fail) ==
    /\ Alive
    /\ Step("is_success",
            [address |-> address, status |-> status,
             state_changeset |-> state_changeset, should_fail |-> should_fail],
            is_success(db, inner, env, address, status, state_changeset, should_fail))

Next ==
    \/ \E address \in Address, amount \in Values : SetBalance(address, amount)
    \/ \E address \in Address : Setup(address)
    \/ \E from \in Senders, to \in Address, s \in Shapes :
          CallCommitting(from, to, s[1], s[2], 0, s[3])
    \/ \E from \in Senders, to \in Address, calldata \in RawData, value \in Values :
          CallRawCommitting(from, to, calldata, value)
    \/ \E from \in Senders, to \in Address, s \in Shapes :
          Call(from, to, s[1], s[2], 0, s[3])
    \/ \E from \in Senders, to \in Address, calldata \in RawData, value \in Values :
          CallRaw(from, to, calldata, value)
    \/ \E from \in Senders, code \in InitCodes, value \in Values :
          Deploy(from, code, value)
    \/ \E address \in Address, status \in Statuses, should_fail \in BOOLEAN :
          \E state_changeset \in Changesets(address) :
              IsSuccess(address, status, state_changeset, should_fail)

Spec == Init /\ [][Next]_vars

\* ------------------------------------------------------------ properties
Committing == {"call_committing", "call_raw_committing", "deploy", "setup"}
Speculative == {"call", "call_raw"}

\* The state of the store as reads see it, before and after the last operation.
ReadNow(a) == basic(db, inner, a)
ReadBefore(a) == basic(last.pre, inner, a)

\* The interpreter's diff of the last operation's (first) invocation.
Ran == last.runs # <<>>
LastDiff == last.runs[1].state

\* C1 (Isolation): after call or call_raw, whatever the outcome, every address
\* reads exactly what it read before the call.
C1_Isolation ==
    last.op \in Speculative => \A a \in Address : ReadNow(a) = ReadBefore(a)

\* A typed speculative call that ended in an Execution error and whose diff
\* would have changed what some address reads.
C1_Witness ==
    /\ last.op = "call"
    /\ last.res.kind = "Execution"
    /\ \E a \in DOMAIN last.res.state_changeset.map :
          last.res.state_changeset.map[a] # ReadNow(a)

\* C2 (Commit durability): after a committing operation every address of the
\* interpreter's diff reads the diff's account state, also for a second
\* Executor seeded from this store; a speculative operation keeps every
\* overlay entry as it was.
C2_CommitDurability ==
    /\ (last.op \in Committing /\ Ran) =>
          \A a \in DOMAIN LastDiff :
              /\ ReadNow(a) = LastDiff[a]
              /\ ProbeDB(db, inner, a, <<>>)[a] = LastDiff[a]
    /\ last.op \in Speculative \cup {"is_success"} =>
          \A a \in DOMAIN last.pre : a \in DOMAIN db /\ db[a] = last.pre[a]

\* A deploy that returned Ok and changed what some address reads.
C2_Witness ==
    /\ last.op = "deploy"
    /\ last.res.kind = "Ok"
    /\ \E a \in DOMAIN LastDiff : LastDiff[a] # ReadBefore(a)

\* C3 (Changeset presence): a result or Execution error of the committing
\* calls carries no changeset; one of the speculative calls carries exactly
\* the interpreter's diff of that invocation, for every status.
C3_ChangesetPresence ==
    last.res.kind \in {"Ok", "Execution"} =>
        /\ last.op \in {"call_committing", "call_raw_committing"} =>
              last.res.state_changeset = NoChangeset
        /\ last.op \in Speculative =>
              /\ last.res.state_changeset.some
              /\ last.res.state_changeset.map = LastDiff

\* A committing call that ended in an Execution error although the
\* interpreter produced a diff.
C3_Witness ==
    /\ last.op = "call_committing"
    /\ last.res.kind = "Execution"
    /\ DOMAIN LastDiff # {}

\* C4 (Changeset completeness): the changeset call_raw returns, applied to the
\* pre-call store, reads on every touched address as the store does after
\* call_raw_committing from the same store with the same inputs; and the two
\* paths agree on status, output, gas and logs.
C4_ChangesetCompleteness ==
    (last.op = "call_raw" /\ Alive) =>
        \E c \in {call_raw_committing(last.pre, inner, env, last.args.from,
                                       last.args.to, last.args.calldata,
                                       last.args.value)},
           replay \in {commit(last.pre, last.res.state_changeset.map)} :
            /\ \A a \in DOMAIN c.runs[1].state \cup DOMAIN last.res.state_changeset.map :
                  basic(replay, inner, a) = basic(c.db, inner, a)
            /\ last.res.status = c.res.status
            /\ last.res.result = c.res.result
            /\ last.res.gas = c.res.gas
            /\ last.res.logs = c.res.logs

\* A call_raw that moved value: its changeset touches two addresses and
\* changes what both read.
C4_Witness ==
    /\ last.op = "call_raw"
    /\ last.args.value > 0
    /\ last.res.status \in return_ok
    /\ Cardinality({a \in DOMAIN last.res.state_changeset.map :
                        last.res.state_changeset.map[a] # ReadBefore(a)}) = 2

\* What the failed() probe reports for `address` on the store is_success
\* builds: TRUE only when the probe call returns Ok with the value true.
ProbeReports(address, state_changeset) ==
    \E p \in {Probe(ProbeDB(last.pre, inner, address, state_changeset), env, address)} :
        p.res.kind = "Ok" /\ p.res.result = "true"

\* C5 (Success symmetry): is_success, when it returns, is shouldFail XOR (status is success and
\* the probe does not report true); a non-success status yields shouldFail.
C5_SuccessSymmetry ==
    (last.op = "is_success" /\ Alive) =>
        LET ok == last.args.status \in return_ok
            flagged == ProbeReports(last.args.address, last.args.state_changeset)
            passed == last.res.result = "true"
        IN  /\ passed <=> (last.args.should_fail # (ok /\ ~flagged))
            /\ ~ok => (passed <=> last.args.should_fail)
            /\ (ok /\ flagged) => (passed <=> last.args.should_fail)

\* A success status whose probe reports true, judged with shouldFail = FALSE:
\* the changeset carries a test contract whose failed flag is set.
C5_Witness ==
    /\ last.op = "is_success"
    /\ last.args.status \in return_ok
    /\ ~last.args.should_fail
    /\ last.args.address \in DOMAIN last.args.state_changeset
    /\ last.args.state_changeset[last.args.address].storage = 1
    /\ last.args.state_changeset[last.args.address].code = 1
    /\ last.res.result = "false"

\* C6 (Deploy address requirement): a creation output without an address
\* makes deploy return the "deployment failed" error; an Ok result carries
\* the address the interpreter yielded, never the zero address.
C6_DeployAddress ==
    (last.op = "deploy" /\ Ran) =>
        LET out == last.runs[1].out
        IN  /\ (out.kind = "Create" /\ out.addr = {}) =>
                  /\ last.res.kind = "Eyre"
                  /\ last.res.reason = "deployment failed"
            /\ last.res.kind = "Ok" =>
                  /\ last.res.addr = out.addr
                  /\ Cardinality(last.res.addr) = 1
                  /\ ZeroAddress \notin last.res.addr

\* A creation the interpreter marks successful without yielding an address.
C6_Witness ==
    /\ last.op = "deploy"
    /\ last.runs[1].status \in return_ok
    /\ last.runs[1].out.kind = "Create"
    /\ last.runs[1].out.addr = {}
    /\ last.res.kind = "Eyre"

\* C7 (Balance override): right after set_balance(addr, X) a read of addr
\* returns balance X.
C7_BalanceOverride ==
    last.op = "set_balance" => ReadNow(last.args.address).balance = last.args.amount

\* set_balance over an overlay entry that held another balance.
C7_Witness ==
    /\ last.op = "set_balance"
    /\ last.args.address \in DOMAIN last.pre
    /\ last.pre[last.args.address].balance # last.args.amount

\* C8 (Overlay shadowing): an address the overlay holds stays in the overlay
\* and is never fetched from the backing provider again, whatever operation
\* follows; set_balance and the committing operations put the addresses they
\* write into the overlay.
C8_OverlayShadowing ==
    /\ \A a \in DOMAIN last.pre : a \in DOMAIN db /\ a \notin last.queried
    /\ last.op = "set_balance" => last.args.address \in DOMAIN db
    /\ (last.op \in Committing /\ Ran) => DOMAIN LastDiff \subseteq DOMAIN db

\* is_success reading an address that a committing call put in the overlay,
\* while another address is still served by the provider.
C8_Witness ==
    /\ last.op = "is_success"
    /\ last.args.address \in DOMAIN last.pre
    /\ last.pre[last.args.address] # inner[last.args.address]
    /\ DOMAIN last.pre # Address

SharedPaths == {"call", "call_raw", "is_success"}

\* C9 as claimed (Idempotent read-through on every path): an address fetched
\* from the backing provider by one operation is not fetched from it again by
\* the operation that follows.
C9_ConsultedAtMostOnce ==
    [][\A a \in Address : a \in last.queried => a \notin last'.queried]_vars

\* C9 as amended: the provider is consulted only for an address the overlay
\* does not hold; an operation holding the store by exclusive reference
\* leaves every address it fetched in the overlay, so it is fetched once; an
\* operation holding it by shared reference reads the same value as before
\* and leaves the overlay without the address, so the next read fetches again.
C9_ReadThrough ==
    \A a \in last.queried :
        /\ a \notin DOMAIN last.pre
        /\ IF last.op \in SharedPaths
           THEN a \notin DOMAIN db /\ ReadNow(a) = ReadBefore(a)
           ELSE a \in DOMAIN db

\* The interpreter, during call_raw, fetched caller and target from the
\* provider through the shared reference.
C9_Witness ==
    /\ last.op = "call_raw"
    /\ Cardinality(last.queried) = 2
    /\ last.queried = {last.args.from, last.args.to}

\* C10 (Execution failure is a typed error): the typed calls return an
\* Execution error exactly when the interpreter's status is no success; the
\* error carries that invocation's status, gas and logs, and the decoded
\* revert reason or else the rendered status; they return Ok only on a
\* success status.  The raw calls, when they return, return Ok with the status.
C10_ExecutionError ==
    (Ran /\ Alive) =>
        LET o == last.runs[1]
            r == last.res
        IN  /\ last.op \in {"call", "call_committing"} =>
                  /\ r.kind = "Execution" <=> o.status \notin return_ok
                  /\ r.kind = "Execution" =>
                        /\ r.status = o.status /\ r.gas = o.gas /\ r.logs = o.logs
                        /\ r.reason \in {"boom", "Dead", o.status}
                        /\ o.out.data = "Error(boom)" => r.reason = "boom"
                        /\ (o.out.data = "0xdead" /\ last.args.abi) => r.reason = "Dead"
                        /\ (o.out.data = "" \/ (o.out.data = "0xdead" /\ ~last.args.abi))
                              => r.reason = o.status
                  /\ r.kind = "Ok" => o.status \in return_ok /\ r.status = o.status
            /\ last.op \in {"call_raw", "call_raw_committing"} =>
                  /\ r.kind = "Ok"
                  /\ r.status = o.status /\ r.gas = o.gas /\ r.logs = o.logs

\* A committing typed call whose revert data does not decode: the reason is
\* the rendered status, and logs were emitted before the failure.
C10_Witness ==
    /\ last.op = "call_committing"
    /\ last.res.kind = "Execution"
    /\ last.res.reason = last.res.status
    /\ last.res.gas > 0

TypedCalls == {"call", "call_committing"}

\* C11 as claimed (Encoding failure short-circuits, for failed encoding and
\* failed decoding alike): a typed call that returned an ABI error made no
\* interpreter invocation and left every address reading as before.
C11_NeverReachesInterpreter ==
    (last.op \in TypedCalls /\ last.res.kind = "AbiError") =>
        /\ ~Ran
        /\ \A a \in Address : ReadNow(a) = ReadBefore(a)

\* C11 as amended: failed argument encoding always ends the typed call in an
\* ABI error before any interpreter invocation, with the store as it was; an
\* ABI error for failed return decoding comes after exactly one invocation
\* that ended with a success status, and then the store is unchanged after
\* call and holds that invocation's diff after call_committing.
C11_EncodingShortCircuit ==
    last.op \in TypedCalls =>
        /\ ~EncodeOk(last.args.func, last.args.args) =>
              /\ last.res.kind = "AbiError"
              /\ ~Ran
              /\ last.queried = {}
              /\ db = last.pre
        /\ (last.res.kind = "AbiError" /\ EncodeOk(last.args.func, last.args.args)) =>
              /\ Len(last.runs) = 1
              /\ last.runs[1].status \in return_ok
              /\ ~DecodeOk(last.args.func, CallData(last.runs[1].out))
              /\ last.op = "call" => db = last.pre
              /\ last.op = "call_committing" =>
                    \A a \in DOMAIN LastDiff : ReadNow(a) = LastDiff[a]

\* A committing typed call whose arguments do not encode, in a state where
\* the same call with encodable arguments would have changed the store.
C11_Witness ==
    /\ last.op = "call_committing"
    /\ ~EncodeOk(last.args.func, last.args.args)
    /\ last.res.kind = "AbiError"
    /\ call_committing(last.pre, inner, env, last.args.from, last.args.to,
                       last.args.func, 0, last.args.value, last.args.abi).db # last.pre

\* C12 (setup): setup(address) makes exactly one interpreter invocation, the
\* committing call of setUp() to address from the zero address with value 0;
\* on a success status it returns that invocation's (status, logs) and the
\* diff is in the store; on any other status it returns an Execution error.
C12_Setup ==
    last.op = "setup" =>
        /\ Len(last.runs) = 1
        /\ last.runs[1] = transact(View(last.pre, inner), env,
                                   CallTx(ZeroAddress, last.args.address, "setUp()", 0))
        /\ last.runs[1].status \in return_ok =>
              \A a \in DOMAIN LastDiff : ReadNow(a) = LastDiff[a]
        /\ (Alive /\ last.runs[1].status \in return_ok) =>
              /\ last.res.kind = "Ok"
              /\ last.res.status = last.runs[1].status
              /\ last.res.logs = last.runs[1].logs
        /\ (Alive /\ last.runs[1].status \notin return_ok) =>
              last.res.kind = "Execution"

\* setup on a test contract: Ok with the setUp event, and the store changed.
C12_Witness ==
    /\ last.op = "setup"
    /\ last.res.kind = "Ok"
    /\ last.res.logs # <<>>
    /\ \E a \in Address : ReadNow(a) # ReadBefore(a)

\* The operations that return the logs of an interpreter invocation.
Logging == {"call", "call_committing", "call_raw", "call_raw_committing", "deploy",
            "setup"}

\* C13 (Per-call log freshness): the logs an operation returns are exactly
\* the events its own interpreter invocation emitted, in emission order;
\* nothing an earlier call emitted is among them.
C13_LogFreshness ==
    (last.op \in Logging /\ Ran /\ last.res.kind \in {"Ok", "Execution"}) =>
        last.res.logs = last.runs[1].logs

\* fail() on a test contract whose failed flag an earlier fail() already set
\* (that call and the deployment emitted events too): the call returns its
\* own two events, in order.
C13_Witness ==
    /\ last.op = "call_raw_committing"
    /\ last.args.calldata = "fail()"
    /\ ReadBefore(last.args.to).code = 1
    /\ ReadBefore(last.args.to).storage = 1
    /\ last.res.logs = <<"log", "fail">>

\* C14 (Collector reclaim is single-owner or abort): an operation returns a
\* result built from the collector only when the Executor is the sole holder
\* of the collector state; call_raw and call_raw_committing, and deploy once
\* the creation yielded an address, abort when another holder is alive.
C14_ReclaimOrAbort ==
    Ran =>
        /\ last.res.kind \in {"Ok", "Execution", "AbiError"} => strong_count = 1
        /\ last.op \in {"call_raw", "call_raw_committing"} =>
              /\ last.res.kind = "Ok" <=> strong_count = 1
              /\ last.res.kind = "panic" <=> strong_count > 1
        /\ (last.op = "deploy" /\ last.runs[1].out.kind = "Create"
                /\ last.runs[1].out.addr # {}) =>
              /\ last.res.kind = "Ok" <=> strong_count = 1
              /\ last.res.kind = "panic" <=> strong_count > 1
        /\ (last.res.kind = "panic" /\ strong_count > 1) =>
              /\ last.res.logs = <<>>
              /\ last.res.reason \in {"no inspector should be alive", "unreachable"}

\* A committing raw call aborted at the reclaim: the inspector was still
\* alive, events had been emitted, and the diff had already been committed.
C14_Witness ==
    /\ last.op = "call_raw_committing"
    /\ last.res.kind = "panic"
    /\ last.res.reason = "no inspector should be alive"
    /\ strong_count = 2
    /\ \E a \in Address : ReadNow(a) # ReadBefore(a)

\* C15 (is_success never mutates the original Executor): a step of
\* is_success leaves the overlay, the backing provider, the environment and
\* so every read of the original store as they were.
C15_IsSuccessFrame ==
    [][last'.op = "is_success" =>
          /\ db' = db
          /\ inner' = inner
          /\ env' = env
          /\ \A a \in Address : basic(db', inner', a) = basic(db, inner, a)]_vars

\* is_success ran its probe with a changeset that differs from what the
\* original store reads, and the probe itself produced a diff.
C15_Witness ==
    /\ last.op = "is_success"
    /\ Ran
    /\ Alive
    /\ DOMAIN LastDiff # {}
    /\ \E a \in DOMAIN last.args.state_changeset :
          last.args.state_changeset[a] # ReadNow(a)

\* The store the probe of is_success has to see: the changeset's accounts,
\* `address` as the original store read it, and nothing else.
Projection(address, state_changeset) ==
    [a \in Address |->
        IF a \in DOMAIN state_changeset THEN state_changeset[a]
        ELSE IF a = address THEN ReadBefore(a)
        ELSE DefaultAccount]

\* C16 (Post-call projection): the failed() probe of is_success is the
\* interpreter's outcome on a store that reads the changeset's entry for every
\* account of the changeset, the original store's view for `address`
\* otherwise, and the default account for every other address.
C16_PostCallProjection ==
    (last.op = "is_success" /\ Ran) =>
        /\ Len(last.runs) = 1
        /\ last.runs[1] =
              transact(Projection(last.args.address, last.args.state_changeset), env,
                       CallTx(ZeroAddress, last.args.address, "failed()", 0))

\* The probe ran against a test contract taken from the original store (the
\* changeset holds neither it nor the zero address), while the original
\* store's zero address is no default account.
C16_Witness ==
    /\ last.op = "is_success"
    /\ Ran
    /\ last.args.address # ZeroAddress
    /\ DOMAIN last.args.state_changeset = {}
    /\ ReadBefore(last.args.address).code = 1
    /\ ReadBefore(last.args.address) # inner[last.args.address]
    /\ ReadBefore(ZeroAddress) # DefaultAccount

\* C17 (Probe only after apparent success): is_success invokes the interpreter
\* exactly when the status is a success; for any other status it makes no
\* invocation and returns shouldFail, whatever the changeset holds.
C17_ProbeOnlyAfterSuccess ==
    last.op = "is_success" =>
        /\ Ran <=> last.args.status \in return_ok
        /\ last.args.status \notin return_ok =>
              /\ last.runs = <<>>
              /\ last.res.kind = "Ok"
              /\ last.res.result = "true" <=> last.args.should_fail

\* A non-success status judged with a changeset whose test contract has the
\* failed flag set.
C17_Witness ==
    /\ last.op = "is_success"
    /\ last.args.status \notin return_ok
    /\ last.args.address \in DOMAIN last.args.state_changeset
    /\ last.args.state_changeset[last.args.address].code = 1
    /\ last.args.state_changeset[last.args.address].storage = 1
    /\ last.args.should_fail
    /\ last.res.result = "true"

\* C18 (set_balance frame): set_balance(addr, X) leaves the nonce, code and
\* storage read for addr and every read of another address as they were, and
\* makes no interpreter invocation.
C18_SetBalanceFrame ==
    last.op = "set_balance" =>
        /\ ReadNow(last.args.address).nonce = ReadBefore(last.args.address).nonce
        /\ ReadNow(last.args.address).code = ReadBefore(last.args.address).code
        /\ ReadNow(last.args.address).storage = ReadBefore(last.args.address).storage
        /\ \A a \in Address \ {last.args.address} : ReadNow(a) = ReadBefore(a)
        /\ last.runs = <<>>

\* set_balance changing the balance of a test contract whose failed flag is
\* set.
C18_Witness ==
    /\ last.op = "set_balance"
    /\ ReadBefore(last.args.address).code = 1
    /\ ReadBefore(last.args.address).storage = 1
    /\ ReadBefore(last.args.address).nonce > 0
    /\ ReadBefore(last.args.address).balance # last.args.amount

\* C19 (Committing paths commit regardless of outcome): after
\* call_raw_committing, call_committing or deploy has invoked the interpreter,
\* whatever it returns, every address of the diff reads the diff's account and
\* every other address reads as before.
C19_CommitRegardless ==
    (last.op \in {"call_raw_committing", "call_committing", "deploy"} /\ Ran) =>
        \A a \in Address :
            ReadNow(a) = IF a \in DOMAIN LastDiff THEN LastDiff[a] ELSE ReadBefore(a)

\* deploy returned "deployment failed" and the store is not what it was.
C19_Witness ==
    /\ last.op = "deploy"
    /\ last.res.kind = "Eyre"
    /\ last.res.reason = "deployment failed"
    /\ \E a \in Address : ReadNow(a) # ReadBefore(a)

\* C20 (Probe failure is 'flag not set'): for a success status, when the
\* probe's invocation ended in a non-success status or its output does not
\* decode as a bool, is_success returns shouldFail XOR true; it returns
\* shouldFail XOR false only when the probe returned Ok with the value true.
C20_ProbeFailure ==
    (last.op = "is_success" /\ last.args.status \in return_ok /\ Alive) =>
        LET o == last.runs[1]
            errored == \/ o.status \notin return_ok
                       \/ ~DecodeOk("failed()(bool)", CallData(o.out))
            flagged == ~errored /\ Decode("failed()(bool)", CallData(o.out)) = "true"
        IN  /\ errored => (last.res.result = "true" <=> ~last.args.should_fail)
            /\ (last.res.result = "true" <=> last.args.should_fail) <=> flagged

\* A success status whose probe ended in a non-success status.
C20_Witness ==
    /\ last.op = "is_success"
    /\ last.args.status \in return_ok
    /\ Ran
    /\ last.runs[1].status \notin return_ok
    /\ ~last.args.should_fail
    /\ last.res.result = "true"

====
